---- MODULE Spec2Model ----
(***************************************************************************)
(* Model of the oxyjs AST node family (src/parser/ast.rs) and of the       *)
(* command-line entry point (src/bin.rs).                                  *)
(*                                                                         *)
(* A node is a record whose fields are the fields of the Rust struct plus  *)
(* a `kind` tag standing for the vtable of the boxed trait object.  The    *)
(* state is a stack of finished nodes owned by the caller of the           *)
(* constructors; every action is one call of a public function.            *)
(* Rendered text is a sequence of lexemes: a string literal of the source  *)
(* such as "ProgramNode{" is the lexeme sequence <<"ProgramNode", "{">>.   *)
(***************************************************************************)
EXTENDS Naturals, Sequences, FiniteSets, TLC

VARIABLES stack, last, panicked, mainst

vars == <<stack, last, panicked, mainst>>

(* ------------------------------ bounds --------------------------------- *)
\* Total weight (nodes plus VarStmt tokens) of the trees held on the stack.
MaxNodes == 5
\* Trees the caller holds at once.
MaxStack == 3
\* Attempt indices at which a fallible writer may be told to fail.
MaxFailAt == 2

(* ------------------------------ tokens --------------------------------- *)
\* FullToken: a token kind with the raw text it was scanned from.
FullToken(k, t) == [kind |-> k, text |-> t]

TokX == FullToken("Identifier", "x")
TokY == FullToken("Identifier", "y")
TokPlus == FullToken("Plus", "+")
TokAssign == FullToken("Assign", "=")

\* The tokens each call is tried with.
NameTokens == {TokX, TokPlus}
VarTokens == {TokX, TokY}
BinaryOpTokens == {TokPlus}
AssignOpTokens == {TokAssign, TokPlus}

\* Token::is_identifier
is_identifier(kind) == kind = "Identifier"

\* Token::is_assignment_op
is_assignment_op(kind) == kind \in {"Assign", "PlusAssign"}

(* ------------------------------ AstKind -------------------------------- *)
AstKind ==
    { "Program", "BlockStmt", "VarStmt", "EmptyStmt", "IfStmt", "ExprStmt",
      "BinaryOpExpr", "CondExpr", "AssignExpr", "CommaExpr", "NameExpr" }

(* ------------------- AstNode::is_statement / is_expression ------------- *)
is_statement(node) ==
    CASE node.kind = "Program"      -> FALSE
      [] node.kind = "BlockStmt"    -> TRUE
      [] node.kind = "VarStmt"      -> TRUE
      [] node.kind = "EmptyStmt"    -> TRUE
      [] node.kind = "IfStmt"       -> TRUE
      [] node.kind = "ExprStmt"     -> TRUE
      [] node.kind = "BinaryOpExpr" -> FALSE
      [] node.kind = "CondExpr"     -> FALSE
      [] node.kind = "AssignExpr"   -> FALSE
      [] node.kind = "CommaExpr"    -> FALSE
      [] node.kind = "NameExpr"     -> FALSE

is_expression_ExprStmtTrue(node) ==
    node.kind \in {"ExprStmt", "BinaryOpExpr", "CondExpr", "AssignExpr",
                   "CommaExpr", "NameExpr"}

is_expression(node) ==
    CASE node.kind = "Program"      -> FALSE
      [] node.kind = "BlockStmt"    -> FALSE
      [] node.kind = "VarStmt"      -> FALSE
      [] node.kind = "EmptyStmt"    -> FALSE
      [] node.kind = "IfStmt"       -> FALSE
      [] node.kind = "ExprStmt"     -> FALSE
      [] node.kind = "BinaryOpExpr" -> TRUE
      [] node.kind = "CondExpr"     -> TRUE
      [] node.kind = "AssignExpr"   -> TRUE
      [] node.kind = "CommaExpr"    -> TRUE
      [] node.kind = "NameExpr"     -> TRUE

(* ----------------------------- constructors ---------------------------- *)
\* A constructor either returns its node or panics on a failed assert!.
Built(node) == [ok |-> TRUE, node |-> node]
AssertFailed == [ok |-> FALSE]

ProgramNode_new == [kind |-> "Program", source_elements |-> <<>>]

add_source_element(self, source_element) ==
    [self EXCEPT !.source_elements = Append(@, source_element)]

BlockStmtNode_new == [kind |-> "BlockStmt"]

VarStmtNode_new == [kind |-> "VarStmt", variables |-> <<>>]

add_variable_Prepend(self, var) ==
    [self EXCEPT !.variables = <<var>> \o @]

add_variable(self, var) ==
    [self EXCEPT !.variables = Append(@, var)]

EmptyStmtNode_new == [kind |-> "EmptyStmt"]

new_if(cond_expr, if_true_stmt) ==
    Built([kind |-> "IfStmt", cond_expr |-> cond_expr,
           if_true_stmt |-> if_true_stmt])

ExprStmtNode_new_Unchecked(expr) ==
    Built([kind |-> "ExprStmt", expr |-> expr])

ExprStmtNode_new(expr) ==
    IF ~is_expression(expr) THEN AssertFailed
    ELSE Built([kind |-> "ExprStmt", expr |-> expr])

BinaryOpExprNode_new(binary_op, left_expr, right_expr) ==
    IF ~is_expression(left_expr) THEN AssertFailed
    ELSE IF ~is_expression(right_expr) THEN AssertFailed
    ELSE Built([kind |-> "BinaryOpExpr", binary_op |-> binary_op,
                left_expr |-> left_expr, right_expr |-> right_expr])

CondExprNode_new(cond_expr, if_expr, else_expr) ==
    IF ~is_expression(cond_expr) THEN AssertFailed
    ELSE IF ~is_expression(if_expr) THEN AssertFailed
    ELSE IF ~is_expression(else_expr) THEN AssertFailed
    ELSE Built([kind |-> "CondExpr", cond_expr |-> cond_expr,
                if_expr |-> if_expr, else_expr |-> else_expr])

AssignExprNode_new_NoOpCheck(assign_op, left_expr, right_expr) ==
    IF ~is_expression(left_expr) THEN AssertFailed
    ELSE IF ~is_expression(right_expr) THEN AssertFailed
    ELSE Built([kind |-> "AssignExpr", assign_op |-> assign_op,
                left_expr |-> left_expr, right_expr |-> right_expr])

AssignExprNode_new(assign_op, left_expr, right_expr) ==
    IF ~is_expression(left_expr) THEN AssertFailed
    ELSE IF ~is_expression(right_expr) THEN AssertFailed
    ELSE IF ~is_assignment_op(assign_op.kind) THEN AssertFailed
    ELSE Built([kind |-> "AssignExpr", assign_op |-> assign_op,
                left_expr |-> left_expr, right_expr |-> right_expr])

CommaExprNode_new(left_expr, right_expr) ==
    IF ~is_expression(left_expr) THEN AssertFailed
    ELSE IF ~is_expression(right_expr) THEN AssertFailed
    ELSE Built([kind |-> "CommaExpr", left_expr |-> left_expr,
                right_expr |-> right_expr])

NameExprNode_new_Unchecked(name) ==
    Built([kind |-> "NameExpr", name |-> name])

NameExprNode_new(name) ==
    IF ~is_identifier(name.kind) THEN AssertFailed
    ELSE Built([kind |-> "NameExpr", name |-> name])

(* ------------------------- structure of a node ------------------------- *)
\* The boxed child nodes a node owns, in field order.
Children(node) ==
    CASE node.kind = "Program"      -> node.source_elements
      [] node.kind = "IfStmt"       -> <<node.cond_expr, node.if_true_stmt>>
      [] node.kind = "ExprStmt"     -> <<node.expr>>
      [] node.kind = "BinaryOpExpr" -> <<node.left_expr, node.right_expr>>
      [] node.kind = "CondExpr"     ->
            <<node.cond_expr, node.if_expr, node.else_expr>>
      [] node.kind = "AssignExpr"   -> <<node.left_expr, node.right_expr>>
      [] node.kind = "CommaExpr"    -> <<node.left_expr, node.right_expr>>
      [] OTHER                      -> <<>>

RECURSIVE Weight(_)
RECURSIVE WeightAll(_)
\* Nodes of a tree, a VarStmt counting one more for each token it holds.
Weight(node) ==
    1 + (IF node.kind = "VarStmt" THEN Len(node.variables) ELSE 0)
      + WeightAll(Children(node))
WeightAll(nodes) ==
    IF nodes = <<>> THEN 0 ELSE Weight(Head(nodes)) + WeightAll(Tail(nodes))

RECURSIVE Nodes(_)
\* Every node of a tree, the root included.
Nodes(node) ==
    {node} \cup UNION { Nodes(Children(node)[i]) :
                            i \in 1..Len(Children(node)) }

StackNodes == UNION { Nodes(stack[i]) : i \in 1..Len(stack) }

(* ------------------------------ fmt::Write ----------------------------- *)
\* A writer: the text accepted so far, the number of write calls made on it
\* and the call indices at which it reports fmt::Error.  String never fails.
Writer(fails) == [buf |-> <<>>, n |-> 0, fails |-> fails]
String_new == Writer({})

\* Result<(), fmt::Error> together with the writer the call leaves behind.
Ok(w) == [ok |-> TRUE, w |-> w]
Err(w) == [ok |-> FALSE, w |-> w]

\* w.write_str(s): one write call; a failing call adds nothing to the text.
write_str(w, s) ==
    IF (w.n + 1) \in w.fails
    THEN Err([w EXCEPT !.n = @ + 1])
    ELSE Ok([w EXCEPT !.n = @ + 1, !.buf = @ \o s])

\* FullToken::write_token: writes the token's raw text to the writer.
write_token(tok, w) == write_str(w, <<tok.text>>)

\* Each `?` of the source is an IF that returns the error at once; the
\* writer a successful call leaves behind is passed to the next call.
RECURSIVE write_tree(_, _)
RECURSIVE ProgramNode_write_elements(_, _, _, _)
RECURSIVE VarStmtNode_write_variables(_, _, _, _)

\* The loop with the separator written after each element instead.
ProgramNode_write_elements_TrailingSep(source_elements, i, first, w) ==
    IF i > Len(source_elements) THEN Ok(w) ELSE
    LET r1 == write_tree(source_elements[i], w) IN
    IF ~r1.ok THEN r1 ELSE
    LET r2 == write_str(r1.w, <<", ">>) IN
    IF ~r2.ok THEN r2 ELSE
    ProgramNode_write_elements(source_elements, i + 1, FALSE, r2.w)

\* The for loop of ProgramNode::write_tree, from element i on.
ProgramNode_write_elements(source_elements, i, first, w) ==
    IF i > Len(source_elements) THEN Ok(w) ELSE
    LET r1 == IF ~first THEN write_str(w, <<", ">>) ELSE Ok(w) IN
    IF ~r1.ok THEN r1 ELSE
    LET r2 == write_tree(source_elements[i], r1.w) IN
    IF ~r2.ok THEN r2 ELSE
    ProgramNode_write_elements(source_elements, i + 1, FALSE, r2.w)

ProgramNode_write_tree(self, w) ==
    LET r1 == write_str(w, <<"ProgramNode", "{">>) IN
    IF ~r1.ok THEN r1 ELSE
    LET r2 == ProgramNode_write_elements(self.source_elements, 1, TRUE, r1.w) IN
    IF ~r2.ok THEN r2 ELSE
    write_str(r2.w, <<"}">>)

BlockStmtNode_write_tree(self, w) == write_str(w, <<"Block", "{", "}">>)

\* The for loop of VarStmtNode::write_tree, from variable i on.
VarStmtNode_write_variables(variables, i, first, w) ==
    IF i > Len(variables) THEN Ok(w) ELSE
    LET r1 == IF ~first THEN write_str(w, <<", ">>) ELSE Ok(w) IN
    IF ~r1.ok THEN r1 ELSE
    LET r2 == write_token(variables[i], r1.w) IN
    IF ~r2.ok THEN r2 ELSE
    VarStmtNode_write_variables(variables, i + 1, FALSE, r2.w)

VarStmtNode_write_tree(self, w) ==
    LET r1 == write_str(w, <<"Var", "{">>) IN
    IF ~r1.ok THEN r1 ELSE
    LET r2 == VarStmtNode_write_variables(self.variables, 1, TRUE, r1.w) IN
    IF ~r2.ok THEN r2 ELSE
    write_str(r2.w, <<"}">>)

EmptyStmtNode_write_tree(self, w) == write_str(w, <<"Empty", "{", "}">>)

IfStmtNode_write_tree(self, w) ==
    LET r1 == write_str(w, <<"If", "(">>) IN
    IF ~r1.ok THEN r1 ELSE
    LET r2 == write_tree(self.cond_expr, r1.w) IN
    IF ~r2.ok THEN r2 ELSE
    LET r3 == write_str(r2.w, <<")", "{">>) IN
    IF ~r3.ok THEN r3 ELSE
    LET r4 == write_tree(self.if_true_stmt, r3.w) IN
    IF ~r4.ok THEN r4 ELSE
    write_str(r4.w, <<"}">>)

ExprStmtNode_write_tree(self, w) ==
    LET r1 == write_str(w, <<"ExprStmt", "{">>) IN
    IF ~r1.ok THEN r1 ELSE
    LET r2 == write_tree(self.expr, r1.w) IN
    IF ~r2.ok THEN r2 ELSE
    write_str(r2.w, <<"}">>)

BinaryOpExprNode_write_tree(self, w) ==
    LET r1 == write_str(w, <<"BinaryOpExpr", "(">>) IN
    IF ~r1.ok THEN r1 ELSE
    LET r2 == write_token(self.binary_op, r1.w) IN
    IF ~r2.ok THEN r2 ELSE
    LET r3 == write_str(r2.w, <<")", "{">>) IN
    IF ~r3.ok THEN r3 ELSE
    LET r4 == write_tree(self.left_expr, r3.w) IN
    IF ~r4.ok THEN r4 ELSE
    LET r5 == write_str(r4.w, <<", ">>) IN
    IF ~r5.ok THEN r5 ELSE
    LET r6 == write_tree(self.right_expr, r5.w) IN
    IF ~r6.ok THEN r6 ELSE
    write_str(r6.w, <<"}">>)

CondExprNode_write_tree(self, w) ==
    LET r1 == write_str(w, <<"CondExpr", "{">>) IN
    IF ~r1.ok THEN r1 ELSE
    LET r2 == write_tree(self.cond_expr, r1.w) IN
    IF ~r2.ok THEN r2 ELSE
    LET r3 == write_str(r2.w, <<", ">>) IN
    IF ~r3.ok THEN r3 ELSE
    LET r4 == write_tree(self.if_expr, r3.w) IN
    IF ~r4.ok THEN r4 ELSE
    LET r5 == write_str(r4.w, <<", ">>) IN
    IF ~r5.ok THEN r5 ELSE
    LET r6 == write_tree(self.else_expr, r5.w) IN
    IF ~r6.ok THEN r6 ELSE
    write_str(r6.w, <<"}">>)

AssignExprNode_write_tree(self, w) ==
    LET r1 == write_str(w, <<"AssignExpr", "(">>) IN
    IF ~r1.ok THEN r1 ELSE
    LET r2 == write_token(self.assign_op, r1.w) IN
    IF ~r2.ok THEN r2 ELSE
    LET r3 == write_str(r2.w, <<")", "{">>) IN
    IF ~r3.ok THEN r3 ELSE
    LET r4 == write_tree(self.left_expr, r3.w) IN
    IF ~r4.ok THEN r4 ELSE
    LET r5 == write_str(r4.w, <<", ">>) IN
    IF ~r5.ok THEN r5 ELSE
    LET r6 == write_tree(self.right_expr, r5.w) IN
    IF ~r6.ok THEN r6 ELSE
    write_str(r6.w, <<"}">>)

CommaExprNode_write_tree(self, w) ==
    LET r1 == write_str(w, <<"CommaExpr", "{">>) IN
    IF ~r1.ok THEN r1 ELSE
    LET r2 == write_tree(self.left_expr, r1.w) IN
    IF ~r2.ok THEN r2 ELSE
    LET r3 == write_str(r2.w, <<", ">>) IN
    IF ~r3.ok THEN r3 ELSE
    LET r4 == write_tree(self.right_expr, r3.w) IN
    IF ~r4.ok THEN r4 ELSE
    write_str(r4.w, <<"}">>)

\* The result of write_token is dropped (no `?` follows the call): whatever
\* it returned, the closing brace is written to the writer it left behind.
NameExprNode_write_tree(self, w) ==
    LET r1 == write_str(w, <<"NameExpr", "{">>) IN
    IF ~r1.ok THEN r1 ELSE
    LET r2 == write_token(self.name, r1.w) IN
    write_str(r2.w, <<"}">>)

\* Dynamic dispatch of AstNode::write_tree on the boxed node.
write_tree(self, w) ==
    CASE self.kind = "Program"      -> ProgramNode_write_tree(self, w)
      [] self.kind = "BlockStmt"    -> BlockStmtNode_write_tree(self, w)
      [] self.kind = "VarStmt"      -> VarStmtNode_write_tree(self, w)
      [] self.kind = "EmptyStmt"    -> EmptyStmtNode_write_tree(self, w)
      [] self.kind = "IfStmt"       -> IfStmtNode_write_tree(self, w)
      [] self.kind = "ExprStmt"     -> ExprStmtNode_write_tree(self, w)
      [] self.kind = "BinaryOpExpr" -> BinaryOpExprNode_write_tree(self, w)
      [] self.kind = "CondExpr"     -> CondExprNode_write_tree(self, w)
      [] self.kind = "AssignExpr"   -> AssignExprNode_write_tree(self, w)
      [] self.kind = "CommaExpr"    -> CommaExprNode_write_tree(self, w)
      [] self.kind = "NameExpr"     -> NameExprNode_write_tree(self, w)

\* tree_string over a buffer that takes two writes and rejects the third.
tree_string_FixedBuffer(self) ==
    LET r == write_tree(self, Writer({3}))
    IN  IF r.ok THEN [panic |-> FALSE, str |-> r.w.buf]
        ELSE [panic |-> TRUE, str |-> <<>>]

\* AstNode::tree_string: write_tree into a fresh String, then unwrap.
tree_string(self) ==
    LET r == write_tree(self, String_new)
    IN  IF r.ok THEN [panic |-> FALSE, str |-> r.w.buf]
        ELSE [panic |-> TRUE, str |-> <<>>]

(* ------------------------------- state --------------------------------- *)
\* `last` describes the call the latest step made.
NoCall == [op |-> "none"]

Init ==
    /\ stack = <<>>
    /\ last = NoCall
    /\ panicked = FALSE
    /\ mainst = [pc |-> "run", exit |-> 0, stdout |-> <<>>, stderr |-> <<>>]

Running == ~panicked /\ mainst.pc = "run"

Top(k) == stack[Len(stack) + 1 - k]
Below(k) == SubSeq(stack, 1, Len(stack) - k)

\* A constructor call taking the top `k` nodes of the stack as its boxes.
Construct(op, k, tok, r) ==
    /\ Running
    /\ Len(stack) >= k
    /\ WeightAll(stack) + 1 <= MaxNodes
    /\ Len(stack) - k + 1 <= MaxStack
    /\ last' = [op |-> op, ok |-> r.ok, tok |-> tok,
                args |-> SubSeq(stack, Len(stack) - k + 1, Len(stack))]
    /\ IF r.ok
       THEN stack' = Append(Below(k), r.node) /\ UNCHANGED panicked
       ELSE panicked' = TRUE /\ UNCHANGED stack
    /\ UNCHANGED mainst

NoTok == [kind |-> "none", text |-> ""]

NewProgram ==
    /\ Running
    /\ Construct("ProgramNode::new", 0, NoTok, Built(ProgramNode_new))
NewBlockStmt ==
    /\ Running
    /\ Construct("BlockStmtNode::new", 0, NoTok, Built(BlockStmtNode_new))
NewVarStmt ==
    /\ Running
    /\ Construct("VarStmtNode::new", 0, NoTok, Built(VarStmtNode_new))
NewEmptyStmt ==
    /\ Running
    /\ Construct("EmptyStmtNode::new", 0, NoTok, Built(EmptyStmtNode_new))
NewIfStmt ==
    /\ Len(stack) >= 2
    /\ Construct("IfStmtNode::new_if", 2, NoTok, new_if(Top(2), Top(1)))
NewExprStmt ==
    /\ Len(stack) >= 1
    /\ Construct("ExprStmtNode::new", 1, NoTok, ExprStmtNode_new(Top(1)))
NewBinaryOpExpr ==
    /\ Len(stack) >= 2
    /\ \E tok \in BinaryOpTokens :
         Construct("BinaryOpExprNode::new", 2, tok,
                   BinaryOpExprNode_new(tok, Top(2), Top(1)))
NewCondExpr ==
    /\ Len(stack) >= 3
    /\ Construct("CondExprNode::new", 3, NoTok,
                 CondExprNode_new(Top(3), Top(2), Top(1)))
NewAssignExpr ==
    /\ Len(stack) >= 2
    /\ \E tok \in AssignOpTokens :
         Construct("AssignExprNode::new", 2, tok,
                   AssignExprNode_new(tok, Top(2), Top(1)))
NewCommaExpr ==
    /\ Len(stack) >= 2
    /\ Construct("CommaExprNode::new", 2, NoTok,
                 CommaExprNode_new(Top(2), Top(1)))
NewNameExpr ==
    /\ Running
    /\ \E tok \in NameTokens :
         Construct("NameExprNode::new", 0, tok, NameExprNode_new(tok))

\* program.add_source_element(element): the box on top of the stack moves
\* into the Program beneath it.
AddSourceElement ==
    /\ Running
    /\ Len(stack) >= 2
    /\ Top(2).kind = "Program"
    /\ stack' = Append(Below(2), add_source_element(Top(2), Top(1)))
    /\ last' = [op |-> "add_source_element", ok |-> TRUE, tok |-> NoTok,
                args |-> <<Top(2), Top(1)>>]
    /\ UNCHANGED <<panicked, mainst>>

\* var_stmt.add_variable(tok) on the VarStmt on top of the stack.
AddVariable ==
    /\ Running
    /\ Len(stack) >= 1
    /\ Top(1).kind = "VarStmt"
    /\ WeightAll(stack) + 1 <= MaxNodes
    /\ \E tok \in VarTokens :
         /\ stack' = Append(Below(1), add_variable(Top(1), tok))
         /\ last' = [op |-> "add_variable", ok |-> TRUE, tok |-> tok,
                     args |-> <<Top(1)>>]
    /\ UNCHANGED <<panicked, mainst>>

\* node.tree_string() on the node on top of the stack.
TreeString ==
    /\ Running
    /\ Len(stack) >= 1
    /\ LET r == tree_string(Top(1))
       IN  /\ last' = [op |-> "tree_string", ok |-> ~r.panic, tok |-> NoTok,
                       args |-> <<Top(1)>>, str |-> r.str]
           /\ panicked' = r.panic
    /\ UNCHANGED <<stack, mainst>>

\* node.write_tree(w) on the node on top of the stack, with a writer that
\* fails the write calls whose indices are in `fails`.
WriteTree ==
    /\ Running
    /\ Len(stack) >= 1
    /\ \E fails \in SUBSET (1..MaxFailAt) :
         LET r == write_tree(Top(1), Writer(fails))
         IN  last' = [op |-> "write_tree", ok |-> r.ok, tok |-> NoTok,
                      args |-> <<Top(1)>>, w |-> r.w]
    /\ UNCHANGED <<stack, panicked, mainst>>

(* ------------------------------- main ---------------------------------- *)
\* What builder.parse_program() can return to main: the finished Program,
\* or a lexical or parse error.
ParseResults ==
    { [ok |-> FALSE, err |-> e] : e \in {"LexError", "ParseError"} }
    \cup (IF Len(stack) = 1 /\ stack[1].kind = "Program"
          THEN { [ok |-> TRUE, program |-> stack[1]] } ELSE {})

\* main: parse_program().unwrap(), then println! of program.tree_string().
\* Standard input is taken to have been read in full; a panic of unwrap ends
\* the process with exit status 101 and the panic message on stderr.
Main ==
    /\ Running
    /\ \E res \in ParseResults :
         /\ last' = [op |-> "main", ok |-> res.ok, tok |-> NoTok,
                     args |-> <<>>]
         /\ IF ~res.ok
            THEN /\ panicked' = TRUE
                 /\ mainst' = [pc |-> "done", exit |-> 101, stdout |-> <<>>,
                               stderr |-> <<"panicked at unwrap", res.err>>]
            ELSE LET r == tree_string(res.program)
                 IN  IF r.panic
                     THEN /\ panicked' = TRUE
                          /\ mainst' = [pc |-> "done", exit |-> 101,
                                        stdout |-> <<>>,
                                        stderr |-> <<"panicked at unwrap",
                                                     "fmt::Error">>]
                     ELSE /\ panicked' = FALSE
                          /\ mainst' = [pc |-> "done", exit |-> 0,
                                        stdout |-> <<"Parsed program: ">>
                                                     \o r.str \o <<"\n">>,
                                        stderr |-> <<>>]
    /\ UNCHANGED stack

\* The calls that build trees followed by renderings into a String.
Next ==
    \/ NewProgram
    \/ NewBlockStmt
    \/ NewVarStmt
    \/ NewEmptyStmt
    \/ NewIfStmt
    \/ NewExprStmt
    \/ NewBinaryOpExpr
    \/ NewCondExpr
    \/ NewAssignExpr
    \/ NewCommaExpr
    \/ NewNameExpr
    \/ AddSourceElement
    \/ AddVariable
    \/ TreeString

Spec == Init /\ [][Next]_vars

\* The same trees rendered into writers that can fail.
NextWrite ==
    \/ NewProgram
    \/ NewBlockStmt
    \/ NewVarStmt
    \/ NewEmptyStmt
    \/ NewIfStmt
    \/ NewExprStmt
    \/ NewBinaryOpExpr
    \/ NewCondExpr
    \/ NewAssignExpr
    \/ NewCommaExpr
    \/ NewNameExpr
    \/ AddSourceElement
    \/ AddVariable
    \/ WriteTree

SpecWrite == Init /\ [][NextWrite]_vars

\* The builder's calls followed by main's handling of parse_program's result.
NextMain ==
    \/ NewProgram
    \/ NewBlockStmt
    \/ NewVarStmt
    \/ NewEmptyStmt
    \/ NewIfStmt
    \/ NewExprStmt
    \/ NewBinaryOpExpr
    \/ NewCondExpr
    \/ NewAssignExpr
    \/ NewCommaExpr
    \/ NewNameExpr
    \/ AddSourceElement
    \/ AddVariable
    \/ Main

SpecMain == Init /\ [][NextMain]_vars

(* ====================== properties of the node model =================== *)
NodesOf(s) == UNION { Nodes(s[i]) : i \in 1..Len(s) }
TopOf(s) == s[Len(s)]
IsPrefix(a, b) == Len(a) <= Len(b) /\ SubSeq(b, 1, Len(a)) = a
AllExpressions(nodes) == \A i \in 1..Len(nodes) : is_expression(nodes[i])

StatementKinds == {"BlockStmt", "VarStmt", "EmptyStmt", "IfStmt", "ExprStmt"}
ExpressionKinds ==
    {"BinaryOpExpr", "CondExpr", "AssignExpr", "CommaExpr", "NameExpr"}

\* C1: new_if refuses a condition that is not an expression and a body that
\* is not a statement, so every IfStmt of every tree has an expression
\* condition and a statement body.
C1_IfStmtChildrenChecked ==
    /\ \A n \in StackNodes :
         n.kind = "IfStmt" =>
            is_expression(n.cond_expr) /\ is_statement(n.if_true_stmt)
    /\ (/\ last.op = "IfStmtNode::new_if"
        /\ ~(is_expression(last.args[1]) /\ is_statement(last.args[2])))
       => ~last.ok /\ panicked

\* C2: no node is both a statement and an expression; Program alone is
\* neither; the five statement variants are statements and the five
\* expression variants are expressions; the answers depend on the variant
\* only.
C2_StatementXorExpression ==
    /\ \A n \in StackNodes :
         /\ n.kind \in AstKind
         /\ ~(is_statement(n) /\ is_expression(n))
         /\ (~is_statement(n) /\ ~is_expression(n)) <=> n.kind = "Program"
         /\ is_statement(n) <=> n.kind \in StatementKinds
         /\ is_expression(n) <=> n.kind \in ExpressionKinds
    /\ \A n, m \in StackNodes :
         n.kind = m.kind =>
            /\ is_statement(n) = is_statement(m)
            /\ is_expression(n) = is_expression(m)

\* A Program holding an ExprStmt that holds an expression: a node that is
\* neither, a statement and an expression in one tree.
C2_Witness ==
    \E n \in StackNodes :
        /\ n.kind = "Program"
        /\ Len(n.source_elements) >= 1
        /\ n.source_elements[1].kind = "ExprStmt"
        /\ n.source_elements[1].expr.kind = "NameExpr"

OperandChecked ==
    {"ExprStmtNode::new", "BinaryOpExprNode::new", "CondExprNode::new",
     "CommaExprNode::new"}

\* C3: ExprStmt, BinaryOpExpr, CondExpr and CommaExpr are constructed exactly
\* when all the boxes passed are expressions; otherwise the call panics and
\* leaves no node; no tree has a non-expression as an operand of the four.
C3_OperandsAreExpressions ==
    /\ last.op \in OperandChecked =>
         /\ last.ok <=> AllExpressions(last.args)
         /\ last.ok => ~panicked /\ Children(TopOf(stack)) = last.args
         /\ ~last.ok =>
              /\ panicked
              /\ SubSeq(stack, Len(stack) - Len(last.args) + 1, Len(stack))
                    = last.args
    /\ \A n \in StackNodes :
         n.kind \in {"ExprStmt", "BinaryOpExpr", "CondExpr", "CommaExpr"}
            => AllExpressions(Children(n))

\* BinaryOpExprNode::new panicking on its second assert.
C3_Witness ==
    /\ last.op = "BinaryOpExprNode::new"
    /\ ~last.ok
    /\ is_expression(last.args[1])
    /\ ~is_expression(last.args[2])

\* C4: AssignExprNode::new succeeds exactly when both boxes are expressions
\* and the operator token is an assignment operator, and panics otherwise;
\* the left box may be any expression.
C4_AssignExprChecks ==
    last.op = "AssignExprNode::new" =>
        /\ last.ok <=> (/\ is_expression(last.args[1])
                        /\ is_expression(last.args[2])
                        /\ is_assignment_op(last.tok.kind))
        /\ last.ok =>
             /\ ~panicked
             /\ TopOf(stack) = [kind |-> "AssignExpr", assign_op |-> last.tok,
                                left_expr |-> last.args[1],
                                right_expr |-> last.args[2]]
        /\ ~last.ok => panicked

\* An assignment whose left side is a BinaryOpExpr has been constructed.
C4_Witness ==
    /\ last.op = "AssignExprNode::new"
    /\ last.ok
    /\ TopOf(stack).left_expr.kind = "BinaryOpExpr"

\* C5: NameExprNode::new panics unless the token is an identifier, so every
\* NameExpr of every tree embeds an identifier token.
C5_NameExprIsIdentifier ==
    /\ last.op = "NameExprNode::new" =>
         /\ last.ok <=> is_identifier(last.tok.kind)
         /\ last.ok => ~panicked /\ TopOf(stack).name = last.tok
         /\ ~last.ok => panicked
    /\ \A n \in StackNodes :
         n.kind = "NameExpr" => n.name.kind = "Identifier"

\* NameExprNode::new has panicked on a token that is no identifier.
C5_Witness ==
    /\ last.op = "NameExprNode::new"
    /\ last.tok = TokPlus
    /\ panicked

C6_Step ==
    /\ last'.op = "VarStmtNode::new" =>
         /\ TopOf(stack').variables = <<>>
         /\ stack' = Append(stack, TopOf(stack'))
    /\ last'.op = "add_variable" =>
         /\ TopOf(stack).kind = "VarStmt"
         /\ stack' = Append(Below(1),
                            [kind |-> "VarStmt",
                             variables |-> Append(TopOf(stack).variables,
                                                  last'.tok)])
    /\ \A i \in 1..Len(stack) :
         (/\ i <= Len(stack')
          /\ stack[i].kind = "VarStmt"
          /\ stack'[i].kind = "VarStmt")
         => /\ IsPrefix(stack[i].variables, stack'[i].variables)
            /\ last'.op # "add_variable"
                 => stack'[i].variables = stack[i].variables
    /\ \A n \in NodesOf(stack) :
         n.kind = "VarStmt" =>
            \/ n \in NodesOf(stack')
            \/ last'.op = "add_variable" /\ n = TopOf(stack)

\* C6: a VarStmt is empty when constructed; add_variable appends the token
\* passed at the end and changes nothing else; no other call changes the
\* variables of any VarStmt.
C6_VarStmtAppendOnly == [][C6_Step]_vars

\* add_variable of x, y, x has given exactly [x, y, x].
C6_Witness ==
    /\ last.op = "add_variable"
    /\ TopOf(stack).variables = <<TokX, TokY, TokX>>

(* ----------------------------- rendering ------------------------------- *)
NodeName(node) ==
    CASE node.kind = "Program"      -> "ProgramNode"
      [] node.kind = "BlockStmt"    -> "Block"
      [] node.kind = "VarStmt"      -> "Var"
      [] node.kind = "EmptyStmt"    -> "Empty"
      [] node.kind = "IfStmt"       -> "If"
      [] node.kind = "ExprStmt"     -> "ExprStmt"
      [] node.kind = "BinaryOpExpr" -> "BinaryOpExpr"
      [] node.kind = "CondExpr"     -> "CondExpr"
      [] node.kind = "AssignExpr"   -> "AssignExpr"
      [] node.kind = "CommaExpr"    -> "CommaExpr"
      [] node.kind = "NameExpr"     -> "NameExpr"

RECURSIVE Join(_)
\* The texts of a sequence with ", " between neighbours.
Join(texts) ==
    IF texts = <<>> THEN <<>>
    ELSE IF Len(texts) = 1 THEN texts[1]
    ELSE texts[1] \o <<", ">> \o Join(Tail(texts))

RECURSIVE Canon(_)
\* What stands in parentheses after the name.
CanonAux(node) ==
    CASE node.kind = "BinaryOpExpr" -> <<"(", node.binary_op.text, ")">>
      [] node.kind = "AssignExpr"   -> <<"(", node.assign_op.text, ")">>
      [] node.kind = "IfStmt"       ->
            <<"(">> \o Canon(node.cond_expr) \o <<")">>
      [] OTHER                      -> <<>>

\* The texts of what stands between the braces, in stored order.
CanonItems(node) ==
    CASE node.kind = "VarStmt"  ->
            [i \in 1..Len(node.variables) |-> <<node.variables[i].text>>]
      [] node.kind = "NameExpr" -> << <<node.name.text>> >>
      [] node.kind = "IfStmt"   -> << Canon(node.if_true_stmt) >>
      [] OTHER                  ->
            [i \in 1..Len(Children(node)) |-> Canon(Children(node)[i])]

Canon(node) ==
    <<NodeName(node)>> \o CanonAux(node) \o <<"{">>
        \o Join(CanonItems(node)) \o <<"}">>

RECURSIVE SeparatorsAt(_, _, _, _)
\* The number of ", " in text[i..] that lie at nesting depth `at`, where
\* `depth` is the nesting depth before text[i].
SeparatorsAt(text, i, depth, at) ==
    IF i > Len(text) THEN 0
    ELSE IF text[i] \in {"{", "("}
         THEN SeparatorsAt(text, i + 1, depth + 1, at)
    ELSE IF text[i] \in {"}", ")"}
         THEN SeparatorsAt(text, i + 1, depth - 1, at)
    ELSE (IF text[i] = ", " /\ depth = at THEN 1 ELSE 0)
            + SeparatorsAt(text, i + 1, depth, at)

\* C7: the text write_tree produces is the canonical form of the tree: name,
\* parenthesised operator token or condition, "{", the children in stored
\* order joined by ", ", "}"; an empty Program is ProgramNode{} and a Program
\* of n elements has n-1 separators at its top level.
C7_WriteTreeIsCanonical ==
    last.op = "tree_string" =>
        LET node == last.args[1]
        IN  /\ last.ok
            /\ last.str = Canon(node)
            /\ node.kind = "Program" =>
                 /\ node.source_elements = <<>>
                      => last.str = <<"ProgramNode", "{", "}">>
                 /\ node.source_elements # <<>>
                      => SeparatorsAt(last.str, 1, 0, 1)
                            = Len(node.source_elements) - 1

\* A Program of two source elements has been rendered.
C7_Witness ==
    /\ last.op = "tree_string"
    /\ last.args[1].kind = "Program"
    /\ Len(last.args[1].source_elements) = 2

C8_Step ==
    last'.op = "tree_string" =>
        /\ last'.ok
        /\ ~panicked'
        /\ stack' = stack
        /\ last'.args = <<TopOf(stack)>>
        /\ (last.op = "tree_string" /\ last.args = last'.args)
              => last'.str = last.str

C9_MainReportsParseError ==
    (last.op = "main" /\ ~last.ok) =>
        /\ ~panicked
        /\ mainst.pc = "done"
        /\ mainst.exit # 0
        /\ mainst.stderr # <<>>
        /\ mainst.stdout = <<>>

FailedWrites(w) == {k \in w.fails : k <= w.n}
Least(S) == CHOOSE k \in S : \A j \in S : k <= j

\* C10: write_tree returns Ok only when every write call succeeded, and the
\* first failing write call is the last call it makes.
C10_WriteErrorsPropagate ==
    last.op = "write_tree" =>
        /\ last.ok <=> FailedWrites(last.w) = {}
        /\ FailedWrites(last.w) # {} => last.w.n = Least(FailedWrites(last.w))

====
